---- MODULE Spec2Model ----
(***************************************************************************)
(* Model of src/SoapyLMS7/LimeSuiteCalibrate.py: the loopback calibration  *)
(* sweep of a LimeSDR.  The program is one sequential script; pc names the *)
(* statement that runs next, and every blocking device call whose result   *)
(* the program cannot foresee (a stream read, a setter that may raise) is  *)
(* a step of its own.                                                      *)
(*                                                                         *)
(* Numbers.  The search moves on a dyadic grid, so the floating point      *)
(* values are kept as integers in units of 2^-MAX_SEARCH_DEPTHS_LAST:      *)
(*   - an IQ correction r*exp(j*phi) is the record [g, p] with             *)
(*     g = log2(r) and p = phi/(pi/2), both in grid units;                 *)
(*   - a DC correction re + j*im is the record [re, im] in grid units;     *)
(*   - a tone level is a whole number of dB.                               *)
(* Rounding errors of the floating point arithmetic are not modelled.      *)
(***************************************************************************)
EXTENDS Integers, Sequences, FiniteSets, TLC

(***************************************************************************)
(* Program constants                                                       *)
(***************************************************************************)
PGA_GAIN == 0
\* frequencies in units of 100 kHz
TX_FREQ_DELTA == 7
TX_CORDIC_FREQ == [ch \in {0, 1} |-> IF ch = 0 THEN 11 ELSE 15]
\* MAX_SEARCH_DEPTHS = range(2, 11)
MAX_SEARCH_DEPTHS_FIRST == 2
MAX_SEARCH_DEPTHS_LAST == 10
NUM_STEPS_PER_ITER == 3
\* -10 in "deltadB = -10 - lvldB", 19 in "min(19, PGA_GAIN + deltadB)"
TargetLeveldB == 0 - 10
MaxPgaGain == 19
\* the 1.0 that bestRxIqLevels, bestTxIqLevels and bestTxDcLevels start from
BestLevelInit == 1

(***************************************************************************)
(* Bounds of the model                                                     *)
(***************************************************************************)
\* samples per capture (SAMPS_PER_CAPTURE is 8192 in the program)
NumSamps == 2
\* last search depth of a run whose measured levels are chosen freely
MaxDepth == 2
\* levels strictly below a recorded best that a freely chosen run may measure
MaxImprove == 1

Chans == {0, 1}

RECURSIVE Pow2(_)
Pow2(n) == IF n <= 0 THEN 1 ELSE 2 * Pow2(n - 1)

\* 1.0 in grid units; pi is 2*One phase units
One == Pow2(MAX_SEARCH_DEPTHS_LAST)

Min(a, b) == IF a < b THEN a ELSE b
Max(a, b) == IF a > b THEN a ELSE b
Abs(x) == IF x < 0 THEN 0 - x ELSE x

(***************************************************************************)
(* Complex values                                                          *)
(***************************************************************************)
\* the float 1.0 as an IQ correction, the float 0.0 as a DC correction
IqIdentity == [g |-> 0, p |-> 0]
DcZero == [re |-> 0, im |-> 0]

\* cmath.phase of a value built with phase p: the angle in (-pi, pi]
WrapPhase(p) == ((p + 2 * One - 1) % (4 * One)) - 2 * One + 1

\* cmath.rect(2**g, p)
Rect(g, p) == [g |-> g, p |-> WrapPhase(p)]

\* cmath.rect(abs(iqPoint) * abs(base), cmath.phase(iqPoint) + cmath.phase(base))
ComposeIq(iqPoint, base) == Rect(iqPoint.g + base.g, iqPoint.p + base.p)

\* min(x, 1.0): the lower limit is missing
ClampUpperOnly(x) == Min(x, One)

\* max(min(x, 1.0), -1.0)
Clamp(x) == Max(Min(x, One), 0 - One)

\* complex(clamp(base.real + dcPoint.real), clamp(base.imag + dcPoint.imag))
ComposeDc(dcPoint, base) ==
    [re |-> Clamp(base.re + dcPoint.re), im |-> Clamp(base.im + dcPoint.im)]

(***************************************************************************)
(* GenerateTestPoints                                                      *)
(***************************************************************************)
\* np.linspace(-m, +m, n)[i], i = 0 .. n-1
Linspace(m, n, i) == (0 - m) + (2 * m * i) \div (n - 1)

\* scale = 1.0/(2**(depth-1))
ScaleOfDepthBefore(depth) == Pow2(MAX_SEARCH_DEPTHS_LAST - depth + 1)

\* the grid keeps the extent of the first depth
ScaleOfFirstDepth(depth) == Pow2(MAX_SEARCH_DEPTHS_LAST - MAX_SEARCH_DEPTHS_FIRST)

\* scale = 1.0/(2**depth), in grid units
Scale(depth) == Pow2(MAX_SEARCH_DEPTHS_LAST - depth)

DcPoint(depth, i, j) ==
    [re |-> Linspace(Scale(depth), NUM_STEPS_PER_ITER, i),
     im |-> Linspace(Scale(depth), NUM_STEPS_PER_ITER, j)]

IqPoint(depth, i, j) ==
    Rect(Linspace(Scale(depth), NUM_STEPS_PER_ITER, j),
         Linspace(Scale(depth), NUM_STEPS_PER_ITER, i))

\* the k-th value a two-level loop of n steps each appends: outer index, inner index
Outer(k, n) == (k - 1) \div n
Inner(k, n) == (k - 1) % n

dcPoints(depth) ==
    [k \in 1..(NUM_STEPS_PER_ITER * NUM_STEPS_PER_ITER) |->
        DcPoint(depth, Outer(k, NUM_STEPS_PER_ITER), Inner(k, NUM_STEPS_PER_ITER))]

iqPoints(depth) ==
    [k \in 1..(NUM_STEPS_PER_ITER * NUM_STEPS_PER_ITER) |->
        IqPoint(depth, Outer(k, NUM_STEPS_PER_ITER), Inner(k, NUM_STEPS_PER_ITER))]

\* every value of a with every value of b
ZipCross(a, b) ==
    [k \in 1..(Len(a) * Len(b)) |->
        [dc |-> a[Outer(k, Len(b)) + 1], iq |-> b[Inner(k, Len(b)) + 1]]]

\* zip(a, b)
Zip(a, b) == [k \in 1..Min(Len(a), Len(b)) |-> [dc |-> a[k], iq |-> b[k]]]

GenerateTestPoints(depth) == Zip(dcPoints(depth), iqPoints(depth))

(***************************************************************************)
(* State                                                                   *)
(***************************************************************************)
VARIABLES
    pc,                 \* the statement that runs next
    retTo,              \* where the running readSamps returns to
    stage,              \* stage of the calibration (the commented blocks of CalibrateAtFreq)
    stageLog,           \* the stages entered so far, in order
    calRuns,            \* invocations of CalibrateAtFreq
    limeSDR,            \* the device: what its setters were last given, and how often
    rxStream,           \* the capture stream
    rxSamples, b0, b1,  \* readSamps: the two buffers (writes per slot) and the views into them
    acqs,               \* calls of readSamps
    samps,              \* tone levels of the block readSamps returned
    depth, points, idx, \* the depth loop and the test point loop
    bestRxIqCorrs, bestRxIqLevels, bestRxIqCorrsIter,
    bestTxIqCorrs, bestTxIqLevels, bestTxIqCorrsIter,
    bestTxDcCorrs, bestTxDcLevels, bestTxDcCorrsIter,
    newIqCorrs, newDcCorrs,
    env                 \* the hardware the run meets

readVars == <<retTo, rxStream, rxSamples, b0, b1, acqs, samps>>
loopVars == <<depth, points, idx>>
rxVars == <<bestRxIqCorrs, bestRxIqLevels, bestRxIqCorrsIter>>
txVars == <<bestTxIqCorrs, bestTxIqLevels, bestTxIqCorrsIter,
            bestTxDcCorrs, bestTxDcLevels, bestTxDcCorrsIter>>
candVars == <<newIqCorrs, newDcCorrs>>
stageVars == <<stage, stageLog, calRuns>>
vars == <<pc, stageVars, limeSDR, readVars, loopVars, rxVars, txVars, candVars, env>>

(***************************************************************************)
(* The device                                                              *)
(***************************************************************************)
Ops == {"rxRF", "txRF", "rxBB", "txBB", "rxIq", "txIq", "txDc", "rxGain"}

\* one setter call: setFrequency, setIQBalance, setDCOffset or setGain
Call(op, ch, val) == [op |-> op, ch |-> ch, val |-> val]

\* the device after the first n calls of cs went through
RECURSIVE ApplyCalls(_, _, _)
ApplyCalls(dev, cs, n) ==
    IF n = 0 THEN dev
    ELSE LET d == ApplyCalls(dev, cs, n - 1)
             c == cs[n]
         IN [d EXCEPT ![c.op][c.ch] = c.val, !.n[c.op] = @ + 1]

\* the calls of a "for ch in [0, 1]" loop, f[ch] being the calls of one pass
PerChannel(f) == f[0] \o f[1]

(***************************************************************************)
(* Tone levels                                                             *)
(***************************************************************************)
\* the frequencies the script measures on channel ch
Freqs(ch) == {TX_FREQ_DELTA, 0 - TX_FREQ_DELTA, TX_FREQ_DELTA - TX_CORDIC_FREQ[ch]}

\* a block by the levels of its tones: at +TX_FREQ_DELTA, at -TX_FREQ_DELTA and
\* at TX_FREQ_DELTA - TX_CORDIC_FREQ[ch]
Block(pos, neg, imb) ==
    [ch \in Chans |-> [f \in Freqs(ch) |->
        IF f = TX_FREQ_DELTA THEN pos[ch]
        ELSE IF f = 0 - TX_FREQ_DELTA THEN neg[ch] ELSE imb[ch]]]

\* 20*log10(max(1e-20, abs(mean(shifted)))) of the block's channel at freq
measureToneLevel(block, freq) == block[freq]

Quiet == [ch \in Chans |-> BestLevelInit]
NoBlock == Block(Quiet, Quiet, Quiet)

\* as many levels below the initial best as a run may improve by
Levels == (BestLevelInit - MaxImprove)..BestLevelInit
\* levels of the reference tone: one that asks for more gain than the PGA has, one on target
RefLevels == {TargetLeveldB - MaxPgaGain - 1, TargetLeveldB}

\* recorded bests the block would replace
NumImproved(block, ret) ==
    IF ret = "rx_compare" THEN
        Cardinality({ch \in Chans :
            measureToneLevel(block[ch], 0 - TX_FREQ_DELTA) < bestRxIqLevels[ch]})
    ELSE IF ret = "tx_compare" THEN
        Cardinality({ch \in Chans :
            measureToneLevel(block[ch], TX_FREQ_DELTA - TX_CORDIC_FREQ[ch])
                < bestTxIqLevels[ch]})
        + Cardinality({ch \in Chans :
            measureToneLevel(block[ch], TX_FREQ_DELTA) < bestTxDcLevels[ch]})
    ELSE 0

\* simulated hardware: the leakage grows with the distance of the correction in
\* effect from the optimum of the channel
IqDist(c, o) == Abs(c.g - o.g) + Abs(c.p - o.p)
DcDist(c, o) == Abs(c.re - o.re) + Abs(c.im - o.im)
SimLevel(dist) == dist - 4 * One

SimBlock(ret) ==
    Block([ch \in Chans |-> IF ret = "tx_compare"
                            THEN SimLevel(DcDist(limeSDR.txDc[ch], env.dcOpt[ch]))
                            ELSE env.ref[ch]],
          [ch \in Chans |-> SimLevel(IqDist(limeSDR.rxIq[ch], env.iqOpt[ch]))],
          [ch \in Chans |-> SimLevel(IqDist(limeSDR.txIq[ch], env.iqOpt[ch]))])

\* freely chosen hardware has one leakage tone whose level moves, the tone of
\* env.focus (a search and a channel): its level is any of Levels, whatever the
\* corrections in effect are; the other leakage tones stay at the initial best level
FocusLevels(search) ==
    {[ch \in Chans |-> IF search = env.focus.search /\ ch = env.focus.ch
                       THEN l ELSE BestLevelInit] : l \in Levels}

\* the reference tone: any of RefLevels on the channel of env.focus, on target on the other
FocusRefLevels ==
    {[ch \in Chans |-> IF ch = env.focus.ch THEN l ELSE TargetLeveldB] : l \in RefLevels}

\* the blocks an acquisition may return to ret
FreeBlocks(ret) ==
    IF ret = "gain_adjust" THEN {Block(ref, Quiet, Quiet) : ref \in FocusRefLevels}
    ELSE IF ret = "rx_compare" THEN {Block(Quiet, img, Quiet) : img \in FocusLevels("rxIq")}
    ELSE IF ret = "tx_compare"
         THEN {Block(lv[1], Quiet, lv[2]) : lv \in FocusLevels("txDc") \X FocusLevels("txIq")}
    ELSE {NoBlock}

Blocks(ret) ==
    IF env.sim THEN {SimBlock(ret)}
    ELSE {b \in FreeBlocks(ret) : NumImproved(b, ret) <= env.budget}

(***************************************************************************)
(* Initial state: the script was started, nothing has run yet              *)
(***************************************************************************)
\* names not yet bound by the script hold values no search produces
UnboundIq == [ch \in Chans |-> [g |-> 2 * One, p |-> 2 * One]]
UnboundDc == [ch \in Chans |-> [re |-> 2 * One, im |-> 2 * One]]
UnboundLevels == [ch \in Chans |-> BestLevelInit + 1]

\* the device as SoapySDR.Device(args) hands it over: registers at their reset
\* values, or holding what an earlier session left in them
PowerOn(dirty) ==
    [rxRF |-> [ch \in Chans |-> "reset"], txRF |-> [ch \in Chans |-> "reset"],
     rxBB |-> [ch \in Chans |-> IF dirty THEN TX_CORDIC_FREQ[ch] ELSE 0],
     txBB |-> [ch \in Chans |-> IF dirty THEN TX_CORDIC_FREQ[ch] ELSE 0],
     rxIq |-> [ch \in Chans |-> IF dirty THEN [g |-> 3, p |-> 0 - 5] ELSE IqIdentity],
     txIq |-> [ch \in Chans |-> IF dirty THEN [g |-> 0 - 2, p |-> 9] ELSE IqIdentity],
     txDc |-> [ch \in Chans |-> IF dirty THEN [re |-> 4, im |-> 0 - 4] ELSE DcZero],
     rxGain |-> [ch \in Chans |-> IF dirty THEN MaxPgaGain ELSE PGA_GAIN],
     n |-> [op \in Ops |-> 0]]

\* optima of the simulated hardware: within the reach of the search, and beyond it
SimCoords == {0 - 301, One \div 2, One \div 2 + 88}
SimOptima == {[g |-> a, p |-> b] : a, b \in SimCoords}

Searches == {"rxIq", "txIq", "txDc"}
NoFocus == [search |-> "none", ch |-> 0]

FreeEnv(search, c) ==
    [sim |-> FALSE, budget |-> MaxImprove, lastDepth |-> MaxDepth,
     focus |-> [search |-> search, ch |-> c],
     ref |-> Quiet, iqOpt |-> [ch \in Chans |-> IqIdentity],
     dcOpt |-> [ch \in Chans |-> DcZero]]

SimEnv(opt) ==
    [sim |-> TRUE, budget |-> 0, lastDepth |-> MAX_SEARCH_DEPTHS_LAST,
     focus |-> NoFocus,
     ref |-> [ch \in Chans |-> IF ch = 0 THEN TargetLeveldB - MaxPgaGain - 1
                               ELSE TargetLeveldB],
     iqOpt |-> opt,
     dcOpt |-> [ch \in Chans |-> [re |-> opt[ch].g, im |-> opt[ch].p]]]

InitProgram ==
    /\ pc = "start"
    /\ retTo = "none"
    /\ stage = "NONE"
    /\ stageLog = <<>>
    /\ calRuns = 0
    /\ limeSDR \in {PowerOn(d) : d \in BOOLEAN}
    /\ rxStream = [state |-> "none", opens |-> 0, closes |-> 0, activations |-> 0,
                   numElems |-> 0, delivered |-> 0, lastReq |-> 0,
                   reading |-> FALSE, error |-> FALSE]
    /\ rxSamples = [ch \in Chans |-> [i \in 1..NumSamps |-> 0]]
    /\ b0 = [off |-> 0, size |-> 0]
    /\ b1 = [off |-> 0, size |-> 0]
    /\ acqs = 0
    /\ samps = NoBlock
    /\ depth = 0
    /\ points = <<>>
    /\ idx = 0
    /\ bestRxIqCorrs = UnboundIq /\ bestRxIqLevels = UnboundLevels
    /\ bestRxIqCorrsIter = UnboundIq
    /\ bestTxIqCorrs = UnboundIq /\ bestTxIqLevels = UnboundLevels
    /\ bestTxIqCorrsIter = UnboundIq
    /\ bestTxDcCorrs = UnboundDc /\ bestTxDcLevels = UnboundLevels
    /\ bestTxDcCorrsIter = UnboundDc
    /\ newIqCorrs = UnboundIq
    /\ newDcCorrs = UnboundDc

InitFree ==
    /\ InitProgram
    /\ env \in {FreeEnv(search, c) : search \in Searches, c \in Chans}
\* channel 0 has any of the optima, channel 1 the same one mirrored
InitSim ==
    /\ InitProgram
    /\ env \in {SimEnv([ch \in Chans |-> IF ch = 0 THEN o ELSE [g |-> o.p, p |-> o.g]]) :
                   o \in SimOptima}
Init == InitFree \/ InitSim

(***************************************************************************)
(* readSamps                                                               *)
(***************************************************************************)
\* b[n:] of a view b
\* the view shrinks but keeps its start
SliceKeepsStart(b, n) == [off |-> b.off, size |-> b.size - Min(n, b.size)]

Slice(b, n) == [off |-> b.off + Min(n, b.size), size |-> b.size - Min(n, b.size)]

\* the buffer after a read put n samples at the start of view b
Written(buf, b, n) ==
    [i \in 1..NumSamps |-> IF b.off < i /\ i <= b.off + n THEN buf[i] + 1 ELSE buf[i]]

\* the buffers and views are set up and the stream is left as it is
CallReadSampsNoBurst(ret) ==
    /\ rxSamples' = [ch \in Chans |-> [i \in 1..NumSamps |-> 0]]
    /\ rxStream' = [rxStream EXCEPT !.delivered = 0, !.lastReq = 0, !.reading = FALSE]
    /\ b0' = [off |-> 0, size |-> NumSamps]
    /\ b1' = [off |-> 0, size |-> NumSamps]
    /\ samps' = NoBlock
    /\ acqs' = acqs + 1
    /\ retTo' = ret
    /\ pc' = "readSamps"

\* lines 46-49: fresh buffers, the burst is activated, the views cover the buffers
CallReadSamps(ret) ==
    /\ rxSamples' = [ch \in Chans |-> [i \in 1..NumSamps |-> 0]]
    /\ rxStream' = [rxStream EXCEPT !.numElems = NumSamps, !.delivered = 0,
                                    !.lastReq = 0, !.reading = FALSE,
                                    !.activations = @ + 1]
    /\ b0' = [off |-> 0, size |-> NumSamps]
    /\ b1' = [off |-> 0, size |-> NumSamps]
    /\ samps' = NoBlock
    /\ acqs' = acqs + 1
    /\ retTo' = ret
    /\ pc' = "readSamps"

\* the status is logged and the read is issued again
OnReadErrorRetry == pc' = pc

\* line 52: "if sr.ret < 0: raise Exception(str(sr))"; nothing catches it
OnReadError == pc' = "failed"

\* what readStream may return when asked for numElems samples
ReadReturns(numElems) == (0 - 1)..numElems

\* lines 50-58: one pass of the read loop; the pass that empties the view returns
ReadStream ==
    /\ pc = "readSamps"
    /\ b0.size > 0
    /\ \E ret \in ReadReturns(b0.size) :
        IF ret < 0
        THEN /\ OnReadError
             /\ rxStream' = [rxStream EXCEPT !.lastReq = b0.size, !.reading = TRUE,
                                             !.error = TRUE]
             /\ UNCHANGED <<retTo, rxSamples, b0, b1, acqs, samps, env>>
        ELSE /\ rxStream' = [rxStream EXCEPT !.lastReq = b0.size, !.reading = TRUE,
                                             !.delivered = @ + ret]
             /\ rxSamples' = [ch \in Chans |->
                    Written(rxSamples[ch], IF ch = 0 THEN b0 ELSE b1, ret)]
             /\ b0' = Slice(b0, ret)
             /\ b1' = Slice(b1, ret)
             /\ UNCHANGED <<retTo, acqs>>
             /\ IF Slice(b0, ret).size = 0
                THEN \E blk \in Blocks(retTo) :
                        /\ samps' = blk
                        /\ env' = [env EXCEPT !.budget = @ - NumImproved(blk, retTo)]
                        /\ pc' = retTo
                ELSE UNCHANGED <<pc, samps, env>>
    /\ UNCHANGED <<stageVars, limeSDR, loopVars, rxVars, txVars, candVars>>

\* a stage is entered
Enter(s) == stage' = s /\ stageLog' = Append(stageLog, s)

\* the setter calls cs are made in order; any of them may raise, which ends the run
\* with the calls before it in effect
Setters(cs, k) == limeSDR' = ApplyCalls(limeSDR, cs, k)

(***************************************************************************)
(* LimeSuiteCalibrate, up to the call of CalibrateAtFreq                   *)
(***************************************************************************)
\* lines 277-306: open and configure the device, open the rx stream
OpenDevice ==
    /\ pc = "start"
    /\ LET cs == <<Call("rxRF", 0, "1e9"), Call("txRF", 0, "1e9")>>
                 \o PerChannel([ch \in Chans |-> <<Call("rxGain", ch, PGA_GAIN)>>])
       IN \E k \in 0..Len(cs) :
            /\ Setters(cs, k)
            /\ IF k = Len(cs)
               THEN /\ rxStream' = [rxStream EXCEPT !.state = "open", !.opens = @ + 1]
                    /\ pc' = "init"
               ELSE /\ pc' = "failed"
                    /\ UNCHANGED rxStream
    /\ UNCHANGED <<stageVars, retTo, rxSamples, b0, b1, acqs, samps,
                   loopVars, rxVars, txVars, candVars, env>>

(***************************************************************************)
(* CalibrateAtFreq                                                         *)
(***************************************************************************)
\* the Rx IQ correction is left as the device has it
ClearCorrectionsTxOnly ==
    /\ pc = "init"
    /\ Enter("INIT")
    /\ calRuns' = calRuns + 1
    /\ LET cs == <<Call("rxRF", 0, "freq"), Call("txRF", 0, "freq+delta")>>
                 \o PerChannel([ch \in Chans |->
                        <<Call("txBB", ch, 0), Call("rxBB", ch, 0),
                          Call("txDc", ch, DcZero), Call("txIq", ch, IqIdentity)>>])
       IN \E k \in 0..Len(cs) :
            /\ Setters(cs, k)
            /\ pc' = IF k = Len(cs) THEN "gain_preset" ELSE "failed"
    /\ UNCHANGED <<readVars, loopVars, rxVars, txVars, candVars, env>>

\* lines 174-186: tune both directions, clear the corrections
ClearCorrections ==
    /\ pc = "init"
    /\ Enter("INIT")
    /\ calRuns' = calRuns + 1
    /\ LET cs == <<Call("rxRF", 0, "freq"), Call("txRF", 0, "freq+delta")>>
                 \o PerChannel([ch \in Chans |->
                        <<Call("txBB", ch, 0), Call("rxBB", ch, 0),
                          Call("txDc", ch, DcZero), Call("txIq", ch, IqIdentity),
                          Call("rxIq", ch, IqIdentity)>>])
       IN \E k \in 0..Len(cs) :
            /\ Setters(cs, k)
            /\ pc' = IF k = Len(cs) THEN "gain_preset" ELSE "failed"
    /\ UNCHANGED <<readVars, loopVars, rxVars, txVars, candVars, env>>

\* lines 188-190: the PGA at its start value, then the acquisition the gain is set from
GainPreset ==
    /\ pc = "gain_preset"
    /\ Enter("RX_GAIN_ADJUST")
    /\ LET cs == PerChannel([ch \in Chans |-> <<Call("rxGain", ch, PGA_GAIN)>>])
       IN \E k \in 0..Len(cs) :
            /\ Setters(cs, k)
            /\ IF k = Len(cs)
               THEN CallReadSamps("gain_adjust")
               ELSE pc' = "failed" /\ UNCHANGED readVars
    /\ UNCHANGED <<calRuns, loopVars, rxVars, txVars, candVars, env>>

\* the correction is applied without the upper limit
CorrectedGainUnlimited(lvldB) == PGA_GAIN + (TargetLeveldB - lvldB)

\* lines 192-195: min(19, PGA_GAIN + deltadB) with deltadB = -10 - lvldB
CorrectedGain(lvldB) == Min(MaxPgaGain, PGA_GAIN + (TargetLeveldB - lvldB))

\* lines 191-195
GainAdjust ==
    /\ pc = "gain_adjust"
    /\ LET cs == PerChannel([ch \in Chans |->
                    <<Call("rxGain", ch,
                           CorrectedGain(measureToneLevel(samps[ch], TX_FREQ_DELTA)))>>])
       IN \E k \in 0..Len(cs) :
            /\ Setters(cs, k)
            /\ pc' = IF k = Len(cs) THEN "rx_initial" ELSE "failed"
    /\ UNCHANGED <<stageVars, readVars, loopVars, rxVars, txVars, candVars, env>>

\* lines 197-198: rxInitial = readSamps(...)
RxInitial ==
    /\ pc = "rx_initial"
    /\ Enter("RX_IQ_SEARCH")
    /\ CallReadSamps("rx_begin")
    /\ UNCHANGED <<calRuns, limeSDR, loopVars, rxVars, txVars, candVars, env>>

\* lines 199-200, and the depth loop is set up
RxSearchBegin ==
    /\ pc = "rx_begin"
    /\ bestRxIqCorrs' = [ch \in Chans |-> IqIdentity]
    /\ bestRxIqLevels' = [ch \in Chans |-> BestLevelInit]
    /\ depth' = MAX_SEARCH_DEPTHS_FIRST
    /\ pc' = "rx_depth"
    /\ UNCHANGED <<stageVars, limeSDR, readVars, points, idx, bestRxIqCorrsIter,
                   txVars, candVars, env>>

\* lines 201-203: the next depth, if there is one: snapshot of the bests, test points
RxDepthBegin ==
    /\ pc = "rx_depth"
    /\ IF depth <= env.lastDepth
       THEN /\ bestRxIqCorrsIter' = bestRxIqCorrs
            /\ points' = GenerateTestPoints(depth)
            /\ idx' = 1
            /\ pc' = "rx_apply"
       ELSE /\ pc' = "rx_final"
            /\ UNCHANGED <<bestRxIqCorrsIter, points, idx>>
    /\ UNCHANGED <<stageVars, limeSDR, readVars, depth, bestRxIqCorrs, bestRxIqLevels,
                   txVars, candVars, env>>

\* the candidate is composed from the snapshot of the other channel
RxCandidateFromOther(ch) == ComposeIq(points[idx].iq, bestRxIqCorrsIter[1 - ch])

\* the candidate is composed from the best as it is now
RxCandidateFromLive(ch) == ComposeIq(points[idx].iq, bestRxIqCorrs[ch])

\* lines 206-208: the candidate of channel ch for the test point at hand
RxCandidate(ch) == ComposeIq(points[idx].iq, bestRxIqCorrsIter[ch])

\* lines 204-211: the candidates go to the device, then one acquisition
RxApply ==
    /\ pc = "rx_apply"
    /\ LET cs == PerChannel([ch \in Chans |-> <<Call("rxIq", ch, RxCandidate(ch))>>])
       IN \E k \in 0..Len(cs) :
            /\ Setters(cs, k)
            /\ IF k = Len(cs)
               THEN /\ newIqCorrs' = [ch \in Chans |-> RxCandidate(ch)]
                    /\ CallReadSamps("rx_compare")
               ELSE pc' = "failed" /\ UNCHANGED <<readVars, newIqCorrs>>
    /\ UNCHANGED <<stageVars, loopVars, rxVars, txVars, newDcCorrs, env>>

\* a tie counts as better
BetterOrEqual(lvl, best) == lvl <= best

\* "if lvl < best...": the comparison that decides an update
Better(lvl, best) == lvl < best

\* the depth loop moves on one test point early
NextPointEarly(apply, nextDepth) ==
    IF idx + 1 < Len(points)
    THEN idx' = idx + 1 /\ pc' = apply /\ UNCHANGED <<depth, points>>
    ELSE depth' = depth + 1 /\ pc' = nextDepth /\ UNCHANGED <<idx, points>>

\* the test point loop moves on; after the last point the depth loop does
NextPoint(apply, nextDepth) ==
    IF idx < Len(points)
    THEN idx' = idx + 1 /\ pc' = apply /\ UNCHANGED <<depth, points>>
    ELSE depth' = depth + 1 /\ pc' = nextDepth /\ UNCHANGED <<idx, points>>

\* lines 212-216
RxCompare ==
    /\ pc = "rx_compare"
    /\ LET lvl(ch) == measureToneLevel(samps[ch], 0 - TX_FREQ_DELTA)
       IN /\ bestRxIqCorrs' = [ch \in Chans |->
                IF Better(lvl(ch), bestRxIqLevels[ch])
                THEN newIqCorrs[ch] ELSE bestRxIqCorrs[ch]]
          /\ bestRxIqLevels' = [ch \in Chans |->
                IF Better(lvl(ch), bestRxIqLevels[ch])
                THEN lvl(ch) ELSE bestRxIqLevels[ch]]
    /\ NextPoint("rx_apply", "rx_depth")
    /\ UNCHANGED <<stageVars, limeSDR, readVars, bestRxIqCorrsIter, txVars, candVars, env>>

\* the last candidate is left on the device
RxFinalCorrLastTried(ch) == newIqCorrs[ch]

\* line 219: the correction the Rx search leaves on the device
RxFinalCorr(ch) == bestRxIqCorrs[ch]

\* lines 218-220
RxFinal ==
    /\ pc = "rx_final"
    /\ LET cs == PerChannel([ch \in Chans |-> <<Call("rxIq", ch, RxFinalCorr(ch))>>])
       IN \E k \in 0..Len(cs) :
            /\ Setters(cs, k)
            /\ IF k = Len(cs)
               THEN CallReadSamps("tx_start")
               ELSE pc' = "failed" /\ UNCHANGED readVars
    /\ UNCHANGED <<stageVars, loopVars, rxVars, txVars, candVars, env>>

\* lines 222-224: the Tx tones move to the CORDIC frequencies, txInitial = readSamps(...)
TxStart ==
    /\ pc = "tx_start"
    /\ Enter("TX_IQ_DC_SEARCH")
    /\ LET cs == PerChannel([ch \in Chans |-> <<Call("txBB", ch, TX_CORDIC_FREQ[ch])>>])
       IN \E k \in 0..Len(cs) :
            /\ Setters(cs, k)
            /\ IF k = Len(cs)
               THEN CallReadSamps("tx_begin")
               ELSE pc' = "failed" /\ UNCHANGED readVars
    /\ UNCHANGED <<calRuns, loopVars, rxVars, txVars, candVars, env>>

\* lines 225-228, and the depth loop is set up
TxSearchBegin ==
    /\ pc = "tx_begin"
    /\ bestTxIqCorrs' = [ch \in Chans |-> IqIdentity]
    /\ bestTxIqLevels' = [ch \in Chans |-> BestLevelInit]
    /\ bestTxDcCorrs' = [ch \in Chans |-> DcZero]
    /\ bestTxDcLevels' = [ch \in Chans |-> BestLevelInit]
    /\ depth' = MAX_SEARCH_DEPTHS_FIRST
    /\ pc' = "tx_depth"
    /\ UNCHANGED <<stageVars, limeSDR, readVars, points, idx, rxVars,
                   bestTxIqCorrsIter, bestTxDcCorrsIter, candVars, env>>

\* lines 229-232
TxDepthBegin ==
    /\ pc = "tx_depth"
    /\ IF depth <= env.lastDepth
       THEN /\ bestTxIqCorrsIter' = bestTxIqCorrs
            /\ bestTxDcCorrsIter' = bestTxDcCorrs
            /\ points' = GenerateTestPoints(depth)
            /\ idx' = 1
            /\ pc' = "tx_apply"
       ELSE /\ pc' = "tx_final"
            /\ UNCHANGED <<bestTxIqCorrsIter, bestTxDcCorrsIter, points, idx>>
    /\ UNCHANGED <<stageVars, limeSDR, readVars, depth, rxVars, bestTxIqCorrs,
                   bestTxIqLevels, bestTxDcCorrs, bestTxDcLevels, candVars, env>>

\* the DC candidate is composed from the DC best as it is now
TxDcCandidateFromLive(ch) == ComposeDc(points[idx].dc, bestTxDcCorrs[ch])

\* lines 236-238 and 239-241: the candidates of channel ch for the test point at hand
TxIqCandidate(ch) == ComposeIq(points[idx].iq, bestTxIqCorrsIter[ch])
TxDcCandidate(ch) == ComposeDc(points[idx].dc, bestTxDcCorrsIter[ch])

\* the Tx IQ candidate goes to the Rx side of the device
TxApplyCallsOnRx ==
    PerChannel([ch \in Chans |-> <<Call("rxIq", ch, TxIqCandidate(ch)),
                                   Call("txDc", ch, TxDcCandidate(ch))>>])

\* each channel gets the candidates of the other one
TxApplyCallsSwapped ==
    PerChannel([ch \in Chans |-> <<Call("txIq", ch, TxIqCandidate(1 - ch)),
                                   Call("txDc", ch, TxDcCandidate(1 - ch))>>])

\* the Rx IQ correction is set again with every Tx candidate
TxApplyCallsRxToo ==
    PerChannel([ch \in Chans |-> <<Call("rxIq", ch, bestRxIqCorrs[ch]),
                                   Call("txIq", ch, TxIqCandidate(ch)),
                                   Call("txDc", ch, TxDcCandidate(ch))>>])

\* lines 242-243: the setter calls of one test point
TxApplyCalls ==
    PerChannel([ch \in Chans |-> <<Call("txIq", ch, TxIqCandidate(ch)),
                                   Call("txDc", ch, TxDcCandidate(ch))>>])

\* lines 233-246
TxApply ==
    /\ pc = "tx_apply"
    /\ LET cs == TxApplyCalls
       IN \E k \in 0..Len(cs) :
            /\ Setters(cs, k)
            /\ IF k = Len(cs)
               THEN /\ newIqCorrs' = [ch \in Chans |-> TxIqCandidate(ch)]
                    /\ newDcCorrs' = [ch \in Chans |-> TxDcCandidate(ch)]
                    /\ CallReadSamps("tx_compare")
               ELSE pc' = "failed" /\ UNCHANGED <<readVars, candVars>>
    /\ UNCHANGED <<stageVars, loopVars, rxVars, txVars, env>>

\* the DC best is compared with the level of the IQ imbalance tone
TxCompareOneTone ==
    /\ pc = "tx_compare"
    /\ LET iqLvl(ch) == measureToneLevel(samps[ch], TX_FREQ_DELTA - TX_CORDIC_FREQ[ch])
       IN /\ bestTxIqCorrs' = [ch \in Chans |->
                IF Better(iqLvl(ch), bestTxIqLevels[ch])
                THEN newIqCorrs[ch] ELSE bestTxIqCorrs[ch]]
          /\ bestTxIqLevels' = [ch \in Chans |->
                IF Better(iqLvl(ch), bestTxIqLevels[ch])
                THEN iqLvl(ch) ELSE bestTxIqLevels[ch]]
          /\ bestTxDcCorrs' = [ch \in Chans |->
                IF Better(iqLvl(ch), bestTxDcLevels[ch])
                THEN newDcCorrs[ch] ELSE bestTxDcCorrs[ch]]
          /\ bestTxDcLevels' = [ch \in Chans |->
                IF Better(iqLvl(ch), bestTxDcLevels[ch])
                THEN iqLvl(ch) ELSE bestTxDcLevels[ch]]
    /\ NextPoint("tx_apply", "tx_depth")
    /\ UNCHANGED <<stageVars, limeSDR, readVars, rxVars, bestTxIqCorrsIter,
                   bestTxDcCorrsIter, candVars, env>>

\* lines 247-255
TxCompare ==
    /\ pc = "tx_compare"
    /\ LET iqLvl(ch) == measureToneLevel(samps[ch], TX_FREQ_DELTA - TX_CORDIC_FREQ[ch])
           dcLvl(ch) == measureToneLevel(samps[ch], TX_FREQ_DELTA)
       IN /\ bestTxIqCorrs' = [ch \in Chans |->
                IF Better(iqLvl(ch), bestTxIqLevels[ch])
                THEN newIqCorrs[ch] ELSE bestTxIqCorrs[ch]]
          /\ bestTxIqLevels' = [ch \in Chans |->
                IF Better(iqLvl(ch), bestTxIqLevels[ch])
                THEN iqLvl(ch) ELSE bestTxIqLevels[ch]]
          /\ bestTxDcCorrs' = [ch \in Chans |->
                IF Better(dcLvl(ch), bestTxDcLevels[ch])
                THEN newDcCorrs[ch] ELSE bestTxDcCorrs[ch]]
          /\ bestTxDcLevels' = [ch \in Chans |->
                IF Better(dcLvl(ch), bestTxDcLevels[ch])
                THEN dcLvl(ch) ELSE bestTxDcLevels[ch]]
    /\ NextPoint("tx_apply", "tx_depth")
    /\ UNCHANGED <<stageVars, limeSDR, readVars, rxVars, bestTxIqCorrsIter,
                   bestTxDcCorrsIter, candVars, env>>

\* lines 260-261: the corrections the Tx search leaves on the device
TxFinalIqCorr(ch) == bestTxIqCorrs[ch]
TxFinalDcCorr(ch) == bestTxDcCorrs[ch]

\* lines 257-262
TxFinal ==
    /\ pc = "tx_final"
    /\ LET cs == PerChannel([ch \in Chans |-> <<Call("txIq", ch, TxFinalIqCorr(ch)),
                                          Call("txDc", ch, TxFinalDcCorr(ch))>>])
       IN \E k \in 0..Len(cs) :
            /\ Setters(cs, k)
            /\ IF k = Len(cs)
               THEN CallReadSamps("plot")
               ELSE pc' = "failed" /\ UNCHANGED readVars
    /\ UNCHANGED <<stageVars, loopVars, rxVars, txVars, candVars, env>>

\* lines 264-267: the plot is written, CalibrateAtFreq returns
Finish ==
    /\ pc = "plot"
    /\ Enter("DONE")
    /\ pc' = "returned"
    /\ UNCHANGED <<calRuns, limeSDR, readVars, loopVars, rxVars, txVars, candVars, env>>

(***************************************************************************)
(* LimeSuiteCalibrate, after CalibrateAtFreq returned                      *)
(***************************************************************************)
\* the stream is closed on the failure path as well
CloseStreamAlways ==
    /\ pc \in {"returned", "failed"}
    /\ rxStream.state = "open"
    /\ rxStream' = [rxStream EXCEPT !.state = "closed", !.closes = @ + 1]
    /\ pc' = IF pc = "returned" THEN "exit" ELSE pc
    /\ UNCHANGED <<stageVars, limeSDR, retTo, rxSamples, b0, b1, acqs, samps,
                   loopVars, rxVars, txVars, candVars, env>>

\* lines 310-316
CloseStream ==
    /\ pc = "returned"
    /\ rxStream' = [rxStream EXCEPT !.state = "closed", !.closes = @ + 1]
    /\ pc' = "exit"
    /\ UNCHANGED <<stageVars, limeSDR, retTo, rxSamples, b0, b1, acqs, samps,
                   loopVars, rxVars, txVars, candVars, env>>

Next ==
    \/ OpenDevice
    \/ ClearCorrections
    \/ GainPreset
    \/ ReadStream
    \/ GainAdjust
    \/ RxInitial
    \/ RxSearchBegin
    \/ RxDepthBegin
    \/ RxApply
    \/ RxCompare
    \/ RxFinal
    \/ TxStart
    \/ TxSearchBegin
    \/ TxDepthBegin
    \/ TxApply
    \/ TxCompare
    \/ TxFinal
    \/ Finish
    \/ CloseStream

\* runs on hardware whose levels are chosen freely, and runs on the simulated hardware
Spec == Init /\ [][Next]_vars

\* runs on the simulated hardware only
SimSpec == InitSim /\ [][Next]_vars

\* LimeSuiteCalibrate goes from setupStream straight into CalibrateAtFreq and from
\* its return straight to closeStream: neither step waits for anything
LiveSpec == Spec /\ WF_vars(ClearCorrections) /\ WF_vars(CloseStream)

\* runs on the simulated hardware, over the depths 2..10, that are never held up
\* for good: a read that keeps returning no samples and changes nothing is the one
\* thing that could hold the program up, and it does not go on for ever
FairSpec == SimSpec /\ WF_vars(Next)

(***************************************************************************)
(* Claims                                                                  *)
(***************************************************************************)
\* what one step may do to the recorded best of one channel of one search, lvl
\* being the level the step compares: the best level does not rise; level or
\* correction change only in a compare step whose level is strictly below the best
\* level, and then the best level falls to it; a level equal to the best level
\* changes neither
BestStep(compare, lvl, level, levelAfter, corr, corrAfter) ==
    /\ levelAfter <= level
    /\ (levelAfter # level \/ corrAfter # corr)
        => (pc = compare /\ lvl < level /\ levelAfter = lvl)
    /\ (pc = compare /\ lvl = level) => (levelAfter = level /\ corrAfter = corr)

\* C1: in each of the three searches and for each channel the recorded best level
\* never rises, falls strictly at every update, the best correction is replaced
\* only by a step that measured a level strictly below the best level, and a level
\* equal to the best level changes neither the best level nor the best correction
C1_BestOnlyImproves ==
    [][\A ch \in Chans :
        /\ pc # "rx_begin" =>
            BestStep("rx_compare", measureToneLevel(samps[ch], 0 - TX_FREQ_DELTA),
                     bestRxIqLevels[ch], bestRxIqLevels'[ch],
                     bestRxIqCorrs[ch], bestRxIqCorrs'[ch])
        /\ pc # "tx_begin" =>
            /\ BestStep("tx_compare",
                        measureToneLevel(samps[ch], TX_FREQ_DELTA - TX_CORDIC_FREQ[ch]),
                        bestTxIqLevels[ch], bestTxIqLevels'[ch],
                        bestTxIqCorrs[ch], bestTxIqCorrs'[ch])
            /\ BestStep("tx_compare", measureToneLevel(samps[ch], TX_FREQ_DELTA),
                        bestTxDcLevels[ch], bestTxDcLevels'[ch],
                        bestTxDcCorrs[ch], bestTxDcCorrs'[ch])]_vars

\* C1 witness: the Rx search has compared a level equal to an improved best level
\* of channel 0 and kept the best correction, which is not the candidate
C1_Witness ==
    /\ pc \in {"rx_apply", "rx_depth"}
    /\ acqs > 2
    /\ bestRxIqLevels[0] < BestLevelInit
    /\ measureToneLevel(samps[0], 0 - TX_FREQ_DELTA) = bestRxIqLevels[0]
    /\ bestRxIqCorrs[0] # newIqCorrs[0]

\* the stages of a calibration run, in their order
StageOrder == <<"INIT", "RX_GAIN_ADJUST", "RX_IQ_SEARCH", "TX_IQ_DC_SEARCH", "DONE">>

\* the statements of each stage
StagePcs(s) ==
    IF s = "NONE" THEN {"start", "init"}
    ELSE IF s = "INIT" THEN {"gain_preset"}
    ELSE IF s = "RX_GAIN_ADJUST" THEN {"gain_adjust", "rx_initial"}
    ELSE IF s = "RX_IQ_SEARCH"
         THEN {"rx_begin", "rx_depth", "rx_apply", "rx_compare", "rx_final", "tx_start"}
    ELSE IF s = "TX_IQ_DC_SEARCH"
         THEN {"tx_begin", "tx_depth", "tx_apply", "tx_compare", "tx_final", "plot"}
    ELSE {"returned", "exit"}

\* C2: the stages INIT, RX_GAIN_ADJUST, RX_IQ_SEARCH, TX_IQ_DC_SEARCH, DONE are
\* entered in exactly this order, each at most once, and the program is at a
\* statement of the stage it is in (or in an acquisition that returns to one, or
\* has failed); from the first step of the Tx search on no Rx IQ correction is
\* set, and from the first step of the Rx IQ search on the Rx gain is not set
C2_StagesInOrder ==
    /\ [](/\ Len(stageLog) <= Len(StageOrder)
          /\ stageLog = SubSeq(StageOrder, 1, Len(stageLog))
          /\ stage = (IF stageLog = <<>> THEN "NONE" ELSE stageLog[Len(stageLog)])
          /\ \/ pc = "failed"
             \/ pc \in StagePcs(stage)
             \/ pc = "readSamps" /\ retTo \in StagePcs(stage))
    /\ [][/\ stage' \in {"TX_IQ_DC_SEARCH", "DONE"}
                => limeSDR'.n["rxIq"] = limeSDR.n["rxIq"]
          /\ stage' \in {"RX_IQ_SEARCH", "TX_IQ_DC_SEARCH", "DONE"}
                => limeSDR'.n["rxGain"] = limeSDR.n["rxGain"]]_vars

\* C2 witness: the run went through all five stages, with Tx candidates applied
C2_Witness ==
    /\ stageLog = StageOrder
    /\ pc = "exit"
    /\ limeSDR.n["txIq"] > 2

\* the candidate c with the test point's IQ delta taken out again
IqBase(c, iqPoint) == [g |-> c.g - iqPoint.g, p |-> WrapPhase(c.p - iqPoint.p)]
DcBase(c, dcPoint) == [re |-> c.re - dcPoint.re, im |-> c.im - dcPoint.im]

\* C3: in the Rx IQ search and in the Tx IQ/DC search all candidates of one depth
\* are composed from one base: the first candidate of a depth from the best
\* correction recorded when the depth begins, every later candidate of the depth
\* from the base of the candidate before it, whatever happened to the recorded
\* best in between
C3_BaseIsDepthSnapshot ==
    [][\A ch \in Chans :
        /\ (pc = "rx_apply" /\ pc' = "readSamps") =>
            /\ limeSDR'.rxIq[ch] = newIqCorrs'[ch]
            /\ IqBase(newIqCorrs'[ch], points[idx].iq) =
                    IF idx = 1 THEN bestRxIqCorrs[ch]
                    ELSE IqBase(newIqCorrs[ch], points[idx - 1].iq)
        /\ (pc = "tx_apply" /\ pc' = "readSamps") =>
            /\ limeSDR'.txIq[ch] = newIqCorrs'[ch]
            /\ limeSDR'.txDc[ch] = newDcCorrs'[ch]
            /\ IqBase(newIqCorrs'[ch], points[idx].iq) =
                    IF idx = 1 THEN bestTxIqCorrs[ch]
                    ELSE IqBase(newIqCorrs[ch], points[idx - 1].iq)
            /\ DcBase(newDcCorrs'[ch], points[idx].dc) =
                    IF idx = 1 THEN bestTxDcCorrs[ch]
                    ELSE DcBase(newDcCorrs[ch], points[idx - 1].dc)]_vars

\* C3 witness: a candidate of the Rx search is in effect that was composed after
\* the recorded best of channel 0 changed in the same depth, and composing from
\* the new best would have given another candidate
C3_Witness ==
    /\ pc = "rx_compare"
    /\ idx > 1
    /\ bestRxIqCorrs[0] # bestRxIqCorrsIter[0]
    /\ limeSDR.rxIq[0] = ComposeIq(points[idx].iq, bestRxIqCorrsIter[0])
    /\ limeSDR.rxIq[0] # ComposeIq(points[idx].iq, bestRxIqCorrs[0])

\* C3 witness of the next depth: a depth of the Tx search has begun from a best
\* that an earlier depth recorded
C3_WitnessNextDepth ==
    /\ pc = "tx_compare"
    /\ depth > MAX_SEARCH_DEPTHS_FIRST
    /\ bestTxDcCorrsIter[1] # DcZero
    /\ newDcCorrs[1] = ComposeDc(points[idx].dc, bestTxDcCorrsIter[1])

\* the last candidate the Rx search tried for channel ch
LastRxCandidate(ch) ==
    ComposeIq(GenerateTestPoints(env.lastDepth)[NUM_STEPS_PER_ITER * NUM_STEPS_PER_ITER].iq,
              bestRxIqCorrsIter[ch])

\* C4: once the Rx search is over the Rx IQ correction on the device is, for each
\* channel, the best one the Rx search recorded, and once the run is complete the
\* Tx IQ and the Tx DC correction on the device are the best ones the Tx search
\* recorded
C4_FinalIsBest ==
    \A ch \in Chans :
        /\ stage \in {"TX_IQ_DC_SEARCH", "DONE"} => limeSDR.rxIq[ch] = bestRxIqCorrs[ch]
        /\ stage = "DONE" =>
            /\ limeSDR.txIq[ch] = bestTxIqCorrs[ch]
            /\ limeSDR.txDc[ch] = bestTxDcCorrs[ch]

\* C4 witness: a complete run whose recorded best Rx correction of channel 0 was
\* found by the search and is not the last candidate the search tried, and whose
\* Tx corrections of channel 0 are not the last candidates either
C4_Witness ==
    /\ pc = "exit"
    /\ stage = "DONE"
    /\ limeSDR.rxIq[0] # IqIdentity
    /\ limeSDR.rxIq[0] # LastRxCandidate(0)
    /\ limeSDR.txIq[0] # newIqCorrs[0]
    /\ limeSDR.txDc[0] # newDcCorrs[0]

\* C5: a negative read status ends the run at that step: the step changes no
\* device setting, no recorded best and no stage and starts no acquisition, the
\* run is failed and not in DONE from then on, and no step follows
C5_ReadErrorAborts ==
    /\ [](rxStream.error => (pc = "failed" /\ stage # "DONE"))
    /\ [][rxStream.error => UNCHANGED vars]_vars
    /\ [][rxStream'.error /\ ~rxStream.error
            => /\ pc = "readSamps"
               /\ UNCHANGED <<limeSDR, rxVars, txVars, stageVars, acqs, rxSamples>>
               /\ rxStream'.activations = rxStream.activations]_vars

\* C5 witness: a read failed in the Tx search while a candidate that is not the
\* recorded best was on the device, and the corrected gain is still set
C5_Witness ==
    /\ rxStream.error
    /\ stage = "TX_IQ_DC_SEARCH"
    /\ limeSDR.txDc[0] # bestTxDcCorrs[0]
    /\ limeSDR.txIq[0] # bestTxIqCorrs[0]
    /\ limeSDR.rxGain[0] # PGA_GAIN

\* the recorded best Rx correction of channel ch is within one step of the final
\* depth (2^-10 in log2 gain, (pi/2)*2^-10 in phase) of the simulated optimum
RxWithinResolution(ch) ==
    /\ Abs(bestRxIqCorrs[ch].g - env.iqOpt[ch].g) <= One \div Pow2(MAX_SEARCH_DEPTHS_LAST)
    /\ Abs(bestRxIqCorrs[ch].p - env.iqOpt[ch].p) <= One \div Pow2(MAX_SEARCH_DEPTHS_LAST)

\* the Rx search of a simulated run over depths 2..10 is over
RxSearchOver == env.sim /\ stage \in {"TX_IQ_DC_SEARCH", "DONE"}

\* C6 as stated: whatever the optimum of the simulated device is, the Rx search
\* over depths 2..10 ends with a best correction within the resolution of the
\* final depth of the optimum
C6_AnyOptimum == RxSearchOver => \A ch \in Chans : RxWithinResolution(ch)

\* C6: on a simulated device whose leakage level is below the initial best
\* level, grows with the distance of the correction in effect to the optimum, and
\* whose optimum has a log2 gain of at most 1/2 and a phase of at most (pi/2)/2 in
\* magnitude, the Rx search over depths 2..10 ends with a best correction
\* within the resolution of the final depth of the optimum
C6_OptimumInReach ==
    RxSearchOver =>
        \A ch \in Chans :
            (Abs(env.iqOpt[ch].g) <= One \div 2 /\ Abs(env.iqOpt[ch].p) <= One \div 2)
                => RxWithinResolution(ch)

\* C6 witness: the search ended one step of the final depth short of an optimum
\* at the edge of its reach in phase, and on the optimum in gain
C6_Witness ==
    /\ RxSearchOver
    /\ env.iqOpt[0] = [g |-> 0 - 301, p |-> One \div 2]
    /\ bestRxIqCorrs[0] = [g |-> 0 - 301, p |-> One \div 2 - 1]
    /\ limeSDR.rxIq[0] = bestRxIqCorrs[0]

\* the test points in use are those of the depth at hand
InDepth == pc \in {"rx_apply", "rx_compare", "tx_apply", "tx_compare"}

\* 2^-D in grid units
TwoToMinus(d) == One \div Pow2(d)

\* C7: the test points of every depth D of 2..10 are exactly 9 pairs (the square of
\* NUM_STEPS_PER_ITER), and in each pair both parts of the DC delta are within
\* [-2^-D, 2^-D], the phase of the IQ delta is within (pi/2)*2^-D and its log2
\* magnitude within 2^-D in absolute value
C7_NinePointsInBounds ==
    InDepth =>
        /\ depth \in MAX_SEARCH_DEPTHS_FIRST..MAX_SEARCH_DEPTHS_LAST
        /\ Len(points) = 9
        /\ Len(points) = NUM_STEPS_PER_ITER * NUM_STEPS_PER_ITER
        /\ \A k \in 1..Len(points) :
            /\ Abs(points[k].dc.re) <= TwoToMinus(depth)
            /\ Abs(points[k].dc.im) <= TwoToMinus(depth)
            /\ Abs(points[k].iq.p) <= TwoToMinus(depth)
            /\ Abs(points[k].iq.g) <= TwoToMinus(depth)

\* C7 witness: the last point of the last depth is in use, and it and the first
\* point are on the bounds
C7_Witness ==
    /\ pc = "tx_compare"
    /\ depth = MAX_SEARCH_DEPTHS_LAST
    /\ idx = 9
    /\ points[idx] = [dc |-> [re |-> 1, im |-> 1], iq |-> [g |-> 1, p |-> 1]]
    /\ points[1] = [dc |-> [re |-> 0 - 1, im |-> 0 - 1], iq |-> [g |-> 0 - 1, p |-> 0 - 1]]

\* step i (0, 1, 2) of the three steps from -2^-D to +2^-D
StepAt(i, d) == (i - 1) * TwoToMinus(d)

\* C8: the test points are 9 pairs and not the 81 of a cross product, and the pair
\* with outer index i and inner index j, which is the pair at position 3*i+j, holds
\* the DC delta (I step i, Q step j) and the IQ delta (phase step i, gain step j)
C8_PairedByPosition ==
    InDepth =>
        /\ Len(points) = 9
        /\ \A i, j \in 0..2 :
            /\ points[3 * i + j + 1].dc = [re |-> StepAt(i, depth), im |-> StepAt(j, depth)]
            /\ points[3 * i + j + 1].iq = [g |-> StepAt(j, depth), p |-> StepAt(i, depth)]

\* C8 witness: the pair of outer index 1 and inner index 0 of the first depth was
\* applied in the Tx search: no change in I and in phase, one step down in Q and in gain
C8_Witness ==
    /\ pc = "tx_compare"
    /\ depth = MAX_SEARCH_DEPTHS_FIRST
    /\ idx = 4
    /\ limeSDR.txDc[0] = [re |-> 0, im |-> 0 - TwoToMinus(depth)]
    /\ limeSDR.txIq[0] = [g |-> 0 - TwoToMinus(depth), p |-> 0]

\* the slots of a buffer that were written once, and those never written
WrittenOnce(buf, n) == \A i \in 1..NumSamps : buf[i] = (IF i <= n THEN 1 ELSE 0)

\* C9: while readSamps runs, both views start after the samples received so far
\* and cover what is still missing, which is at least one sample, and both buffers
\* have N slots of which exactly the received ones were written, once each; every
\* read asks for exactly the missing count and writes what it returns right after
\* the samples received before; readSamps returns only with all N slots of both
\* buffers written; a negative read status ends the run as failed, with no return
C9_ReadsUntilComplete ==
    /\ [](pc = "readSamps" =>
            /\ b0 = [off |-> rxStream.delivered, size |-> NumSamps - rxStream.delivered]
            /\ b1 = b0
            /\ b0.size > 0
            /\ \A ch \in Chans :
                /\ DOMAIN rxSamples[ch] = 1..NumSamps
                /\ WrittenOnce(rxSamples[ch], rxStream.delivered))
    /\ [][pc = "readSamps" =>
            /\ rxStream'.lastReq = NumSamps - rxStream.delivered
            /\ rxStream'.delivered >= rxStream.delivered
            /\ \A ch \in Chans : \A i \in 1..NumSamps :
                rxSamples'[ch][i] - rxSamples[ch][i] =
                    (IF rxStream.delivered < i /\ i <= rxStream'.delivered THEN 1 ELSE 0)
            /\ pc' \notin {"readSamps", "failed"} =>
                /\ pc' = retTo
                /\ ~rxStream'.error
                /\ rxStream'.delivered = NumSamps
                /\ \A ch \in Chans : WrittenOnce(rxSamples'[ch], NumSamps)
            /\ rxStream'.error => pc' = "failed"
            /\ pc' = "failed" => rxStream'.error]_vars

\* C9 witness: readSamps returned after the stream delivered in parts: the last
\* read asked for fewer than N samples, and all N were collected
C9_Witness ==
    /\ pc = "rx_compare"
    /\ rxStream.delivered = NumSamps
    /\ rxStream.lastReq > 0
    /\ rxStream.lastReq < NumSamps
    /\ \A ch \in Chans : WrittenOnce(rxSamples[ch], NumSamps)

\* C10: the stream is opened at most once, CalibrateAtFreq is invoked at most once
\* and only with the stream open, the stream is closed at most once and only after
\* a run that reached DONE, a failed run leaves the stream unclosed; an opened
\* stream leads to the invocation of CalibrateAtFreq and a run that reached DONE
\* leads to the stream being closed
C10_CloseIffDone ==
    /\ [](/\ rxStream.opens <= 1
          /\ calRuns <= 1
          /\ rxStream.closes <= 1
          /\ calRuns = 1 => rxStream.opens = 1
          /\ (rxStream.closes = 1) = (rxStream.state = "closed")
          /\ rxStream.state = "closed" => (stage = "DONE" /\ calRuns = 1 /\ pc = "exit")
          /\ pc = "failed" => (rxStream.closes = 0 /\ stage # "DONE"))
    /\ (rxStream.opens = 1) ~> (calRuns = 1)
    /\ (stage = "DONE") ~> (rxStream.state = "closed")

\* C10 witness: a run that reached DONE, with the stream opened once and closed once
C10_Witness ==
    /\ pc = "exit"
    /\ stage = "DONE"
    /\ calRuns = 1
    /\ rxStream.opens = 1
    /\ rxStream.closes = 1
    /\ rxStream.state = "closed"

\* C10 witness of the failure path: a run failed in the Tx search and the stream
\* it opened is still open
C10_WitnessFailed ==
    /\ pc = "failed"
    /\ stage = "TX_IQ_DC_SEARCH"
    /\ rxStream.state = "open"
    /\ rxStream.closes = 0

\* C11: when RX_GAIN_ADJUST is over, the gain of each Rx channel is
\* min(19, PGA_GAIN + (-10 - level)) for the level of the reference tone in the one
\* block acquired so far, no Rx IQ candidate has been applied yet, and from then on
\* the gain on the device is at most 19 and the number of gain setter calls stays
\* at the three per channel made so far (the one of LimeSuiteCalibrate, the start
\* value, the corrected value)
C11_GainOnce ==
    /\ pc = "rx_initial" =>
        /\ acqs = 1
        /\ limeSDR.n["rxIq"] = Cardinality(Chans)
        /\ \A ch \in Chans :
            limeSDR.rxGain[ch] =
                Min(19, PGA_GAIN + ((0 - 10) - measureToneLevel(samps[ch], TX_FREQ_DELTA)))
    /\ stage \in {"RX_IQ_SEARCH", "TX_IQ_DC_SEARCH", "DONE"} =>
        /\ limeSDR.n["rxGain"] = 3 * Cardinality(Chans)
        /\ \A ch \in Chans : limeSDR.rxGain[ch] <= 19

\* C11 witness: the reference tone of channel 0 asked for more gain than 19 and
\* got 19, channel 1 was on target and kept the start value, and the run went on
\* to its end with these gains
C11_Witness ==
    /\ pc = "exit"
    /\ limeSDR.rxGain[0] = 19
    /\ limeSDR.rxGain[1] = PGA_GAIN
    /\ env.ref[0] < TargetLeveldB - 19

\* values around every eighth of 1.0 between -2.0 and 2.0
ClampInputs == {k * (One \div 8) + d : k \in (0 - 16)..16, d \in {0 - 1, 0, 1}}

\* the Tx search has recorded bests
TxBestsBound ==
    \/ pc \in {"tx_depth", "tx_apply", "tx_compare", "tx_final", "plot", "returned", "exit"}
    \/ pc = "readSamps" /\ retTo \in {"tx_compare", "plot"}

DcInRange(c) == Abs(c.re) <= One /\ Abs(c.im) <= One

\* C12: every Tx DC correction the Tx search has on the device, has composed as a
\* candidate or has recorded as best has both components within [-1, 1]; the clamp
\* that builds the candidates maps every value into [-1, 1] and leaves a value
\* within [-1, 1] as it is
C12_DcWithinUnit ==
    /\ TxBestsBound =>
        \A ch \in Chans :
            /\ DcInRange(limeSDR.txDc[ch])
            /\ DcInRange(bestTxDcCorrs[ch])
            /\ pc # "tx_depth" => DcInRange(bestTxDcCorrsIter[ch])
            /\ pc = "tx_compare" => DcInRange(newDcCorrs[ch])
            /\ pc = "tx_apply" => DcInRange(TxDcCandidate(ch))
    /\ pc = "tx_apply" => \A x \in ClampInputs :
        /\ Abs(Clamp(x)) <= One
        /\ Clamp(Clamp(x)) = Clamp(x)
        /\ Abs(x) <= One => Clamp(x) = x
        /\ x > One => Clamp(x) = One
        /\ x < 0 - One => Clamp(x) = 0 - One

\* C12 witness: a complete run whose recorded best Tx DC correction of channel 0
\* is not zero and is on the device
C12_Witness ==
    /\ pc = "exit"
    /\ bestTxDcCorrs[0] # DcZero
    /\ limeSDR.txDc[0] = bestTxDcCorrs[0]
    /\ DcInRange(bestTxDcCorrs[0])

\* the levels of the two tones the Tx search looks at, in the block at hand
TxIqTone(ch) == measureToneLevel(samps[ch], TX_FREQ_DELTA - TX_CORDIC_FREQ[ch])
TxDcTone(ch) == measureToneLevel(samps[ch], TX_FREQ_DELTA)

\* C13: in every compare step of the Tx search and for each channel, the Tx IQ
\* best becomes the candidate and its level exactly when the IQ imbalance tone is
\* strictly below the Tx IQ best level and stays as it is otherwise, and the Tx DC
\* best becomes the candidate and its level exactly when the DC tone is strictly
\* below the Tx DC best level and stays as it is otherwise; neither depends on the
\* other tone or the other best
C13_TxBestsIndependent ==
    [][pc = "tx_compare" =>
        \A ch \in Chans :
            /\ bestTxIqCorrs'[ch] = (IF TxIqTone(ch) < bestTxIqLevels[ch]
                                     THEN newIqCorrs[ch] ELSE bestTxIqCorrs[ch])
            /\ bestTxIqLevels'[ch] = (IF TxIqTone(ch) < bestTxIqLevels[ch]
                                      THEN TxIqTone(ch) ELSE bestTxIqLevels[ch])
            /\ bestTxDcCorrs'[ch] = (IF TxDcTone(ch) < bestTxDcLevels[ch]
                                     THEN newDcCorrs[ch] ELSE bestTxDcCorrs[ch])
            /\ bestTxDcLevels'[ch] = (IF TxDcTone(ch) < bestTxDcLevels[ch]
                                      THEN TxDcTone(ch) ELSE bestTxDcLevels[ch])]_vars

\* C13 witness: the compare step just made recorded a new Tx DC best for channel 0
\* and left its Tx IQ best, which an earlier step had recorded, as it was
C13_Witness ==
    /\ pc \in {"tx_apply", "tx_depth"}
    /\ bestTxDcCorrs[0] = newDcCorrs[0]
    /\ bestTxDcLevels[0] = TxDcTone(0)
    /\ TxIqTone(0) > bestTxIqLevels[0]
    /\ bestTxIqCorrs[0] # newIqCorrs[0]
    /\ bestTxIqCorrs[0] # IqIdentity

\* C13 witness of the other side: a new Tx IQ best and the Tx DC best left alone
C13_WitnessIqOnly ==
    /\ pc \in {"tx_apply", "tx_depth"}
    /\ bestTxIqCorrs[0] = newIqCorrs[0]
    /\ bestTxIqLevels[0] = TxIqTone(0)
    /\ TxDcTone(0) > bestTxDcLevels[0]
    /\ bestTxDcCorrs[0] # newDcCorrs[0]
    /\ bestTxDcCorrs[0] # DcZero

\* the level of the tone the Rx search looks at, in the block at hand
RxTone(ch) == measureToneLevel(samps[ch], 0 - TX_FREQ_DELTA)

\* what a step of either search does to the data of channel ch, written with the
\* data of channel ch and the position in the loops only
OwnChannelStep(ch) ==
    /\ (pc = "rx_depth" /\ pc' = "rx_apply") => bestRxIqCorrsIter'[ch] = bestRxIqCorrs[ch]
    /\ (pc = "rx_apply" /\ pc' = "readSamps") =>
        /\ newIqCorrs'[ch] = ComposeIq(points[idx].iq, bestRxIqCorrsIter[ch])
        /\ limeSDR'.rxIq[ch] = newIqCorrs'[ch]
    /\ pc = "rx_compare" =>
        /\ bestRxIqCorrs'[ch] = (IF RxTone(ch) < bestRxIqLevels[ch]
                                 THEN newIqCorrs[ch] ELSE bestRxIqCorrs[ch])
        /\ bestRxIqLevels'[ch] = (IF RxTone(ch) < bestRxIqLevels[ch]
                                  THEN RxTone(ch) ELSE bestRxIqLevels[ch])
    /\ (pc = "tx_depth" /\ pc' = "tx_apply") =>
        /\ bestTxIqCorrsIter'[ch] = bestTxIqCorrs[ch]
        /\ bestTxDcCorrsIter'[ch] = bestTxDcCorrs[ch]
    /\ (pc = "tx_apply" /\ pc' = "readSamps") =>
        /\ newIqCorrs'[ch] = ComposeIq(points[idx].iq, bestTxIqCorrsIter[ch])
        /\ newDcCorrs'[ch] = ComposeDc(points[idx].dc, bestTxDcCorrsIter[ch])
        /\ limeSDR'.txIq[ch] = newIqCorrs'[ch]
        /\ limeSDR'.txDc[ch] = newDcCorrs'[ch]
    /\ pc = "tx_compare" =>
        /\ bestTxIqCorrs'[ch] \in {bestTxIqCorrs[ch], newIqCorrs[ch]}
        /\ bestTxIqLevels'[ch] \in {bestTxIqLevels[ch], TxIqTone(ch)}
        /\ bestTxDcCorrs'[ch] \in {bestTxDcCorrs[ch], newDcCorrs[ch]}
        /\ bestTxDcLevels'[ch] \in {bestTxDcLevels[ch], TxDcTone(ch)}
        /\ (bestTxIqLevels'[ch] # bestTxIqLevels[ch]) = (TxIqTone(ch) < bestTxIqLevels[ch])
        /\ (bestTxDcLevels'[ch] # bestTxDcLevels[ch]) = (TxDcTone(ch) < bestTxDcLevels[ch])

\* where the loops go after a compare step: decided by the position alone
LoopStep ==
    pc \in {"rx_compare", "tx_compare"} =>
        /\ points' = points
        /\ idx' = (IF idx < Len(points) THEN idx + 1 ELSE idx)
        /\ depth' = (IF idx < Len(points) THEN depth ELSE depth + 1)
        /\ pc' = (IF pc = "rx_compare"
                  THEN (IF idx < Len(points) THEN "rx_apply" ELSE "rx_depth")
                  ELSE (IF idx < Len(points) THEN "tx_apply" ELSE "tx_depth"))

\* a channel whose leakage tones never fall below the initial best level
QuietChannel(ch) == ~env.sim /\ env.focus.ch # ch

\* C14: every step of the searches changes the snapshot, the candidate, the device
\* correction and the bests of a channel as a function of that channel's own data
\* and level, and the course of the loops does not depend on any level; and in all
\* runs in which one channel measures the same levels throughout while the other
\* channel measures whatever it does, the first channel keeps the same bests
\* (identity, initial level) and gets the same candidates (the test points)
C14_ChannelsIndependent ==
    /\ [][LoopStep /\ \A ch \in Chans : OwnChannelStep(ch)]_vars
    /\ [](\A ch \in Chans : QuietChannel(ch) =>
            /\ bestRxIqLevels[ch] # UnboundLevels[ch] =>
                (bestRxIqCorrs[ch] = IqIdentity /\ bestRxIqLevels[ch] = BestLevelInit)
            /\ bestTxIqLevels[ch] # UnboundLevels[ch] =>
                /\ bestTxIqCorrs[ch] = IqIdentity /\ bestTxIqLevels[ch] = BestLevelInit
                /\ bestTxDcCorrs[ch] = DcZero /\ bestTxDcLevels[ch] = BestLevelInit
            /\ pc = "rx_compare" => limeSDR.rxIq[ch] = points[idx].iq
            /\ pc = "tx_compare" =>
                (limeSDR.txIq[ch] = points[idx].iq /\ limeSDR.txDc[ch] = points[idx].dc))

\* C14 witness: a complete run in which channel 1 recorded a new best in the Rx
\* search and has it on the device, while channel 0, which measured the same level
\* as ever, has the identity as its best and on the device
C14_Witness ==
    /\ QuietChannel(0)
    /\ pc = "exit"
    /\ bestRxIqCorrs[1] # IqIdentity
    /\ bestRxIqLevels[1] < BestLevelInit
    /\ limeSDR.rxIq[1] = bestRxIqCorrs[1]
    /\ bestRxIqCorrs[0] = IqIdentity
    /\ bestRxIqLevels[0] = BestLevelInit
    /\ limeSDR.rxIq[0] = IqIdentity

\* candidates a search has applied before the one at hand
CandidatesBefore == 9 * (depth - MAX_SEARCH_DEPTHS_FIRST) + (idx - 1)

\* acquisitions before the first candidate of the Tx search: the two before the
\* Rx search (gain, rxInitial), those of the Rx search, rxFinal and txInitial
AcqsBeforeTx == 2 + 9 * (env.lastDepth - MAX_SEARCH_DEPTHS_FIRST + 1) + 2

\* the acquisition of a candidate is running or is over and not yet compared
Acquiring(compare) == pc = compare \/ (pc = "readSamps" /\ retTo = compare)

\* C15: in both searches a candidate is applied to both channels, then exactly one
\* acquisition is made with the candidates on the device, then the bests are
\* compared, and only then the next candidate is applied: at every apply the
\* search has made one acquisition and one setter call per channel and correction
\* for each earlier candidate, and at every compare one more of each; a best that
\* a compare step records is the correction the device had for that channel during
\* the acquisition, with the level of that acquisition's block; on the simulated
\* device every recorded best level is the level of its recorded best correction
C15_ApplyAcquireCompare ==
    /\ [](/\ pc = "rx_apply" =>
                /\ acqs = 2 + CandidatesBefore
                /\ limeSDR.n["rxIq"] = 2 * (1 + CandidatesBefore)
          /\ Acquiring("rx_compare") =>
                /\ acqs = 2 + CandidatesBefore + 1
                /\ limeSDR.n["rxIq"] = 2 * (2 + CandidatesBefore)
                /\ \A ch \in Chans : limeSDR.rxIq[ch] = newIqCorrs[ch]
          /\ pc = "tx_apply" =>
                /\ acqs = AcqsBeforeTx + CandidatesBefore
                /\ limeSDR.n["txIq"] = 2 * (1 + CandidatesBefore)
                /\ limeSDR.n["txDc"] = 2 * (1 + CandidatesBefore)
          /\ Acquiring("tx_compare") =>
                /\ acqs = AcqsBeforeTx + CandidatesBefore + 1
                /\ limeSDR.n["txIq"] = 2 * (2 + CandidatesBefore)
                /\ limeSDR.n["txDc"] = 2 * (2 + CandidatesBefore)
                /\ \A ch \in Chans :
                    limeSDR.txIq[ch] = newIqCorrs[ch] /\ limeSDR.txDc[ch] = newDcCorrs[ch]
          /\ env.sim => \A ch \in Chans :
                /\ bestRxIqLevels[ch] < BestLevelInit =>
                    bestRxIqLevels[ch] = SimLevel(IqDist(bestRxIqCorrs[ch], env.iqOpt[ch]))
                /\ bestTxIqLevels[ch] < BestLevelInit =>
                    bestTxIqLevels[ch] = SimLevel(IqDist(bestTxIqCorrs[ch], env.iqOpt[ch]))
                /\ bestTxDcLevels[ch] < BestLevelInit =>
                    bestTxDcLevels[ch] = SimLevel(DcDist(bestTxDcCorrs[ch], env.dcOpt[ch])))
    /\ [][/\ pc = "readSamps" => limeSDR' = limeSDR
          /\ \A ch \in Chans :
                /\ (pc = "rx_compare" /\ bestRxIqCorrs'[ch] # bestRxIqCorrs[ch]) =>
                    (bestRxIqCorrs'[ch] = limeSDR.rxIq[ch] /\ bestRxIqLevels'[ch] = RxTone(ch))
                /\ (pc = "tx_compare" /\ bestTxIqCorrs'[ch] # bestTxIqCorrs[ch]) =>
                    (bestTxIqCorrs'[ch] = limeSDR.txIq[ch] /\ bestTxIqLevels'[ch] = TxIqTone(ch))
                /\ (pc = "tx_compare" /\ bestTxDcCorrs'[ch] # bestTxDcCorrs[ch]) =>
                    (bestTxDcCorrs'[ch] = limeSDR.txDc[ch] /\ bestTxDcLevels'[ch] = TxDcTone(ch))
          /\ (pc \notin {"rx_begin", "tx_begin"} /\ pc' # "failed") =>
                \A ch \in Chans :
                    /\ bestRxIqCorrs'[ch] # bestRxIqCorrs[ch] => pc = "rx_compare"
                    /\ bestTxIqCorrs'[ch] # bestTxIqCorrs[ch] => pc = "tx_compare"
                    /\ bestTxDcCorrs'[ch] # bestTxDcCorrs[ch] => pc = "tx_compare"]_vars

\* C15 witness: in the third depth of the Tx search on the simulated device, the
\* bests of channel 0 are not the initial ones, the candidate now on the device
\* is another one, and its acquisition is over
C15_Witness ==
    /\ env.sim
    /\ pc = "tx_compare"
    /\ depth = MAX_SEARCH_DEPTHS_FIRST + 2
    /\ idx = 5
    /\ bestTxIqCorrs[0] # IqIdentity
    /\ bestTxDcCorrs[0] # DcZero
    /\ limeSDR.txIq[0] # bestTxIqCorrs[0]
    /\ limeSDR.txIq[0] = newIqCorrs[0]
    /\ rxStream.delivered = NumSamps

\* setter calls per correction when a search is over: the clearing one, one per
\* candidate, the final one, each for both channels
CallsOfSearch == 2 * (1 + 9 * (env.lastDepth - MAX_SEARCH_DEPTHS_FIRST + 1) + 1)

\* C16: from the first acquisition to the end of RX_GAIN_ADJUST the device has the
\* Tx DC offset 0.0 and the Tx IQ and Rx IQ corrections 1.0 on both channels, each
\* set once per channel and not before the run began; each search enters its first
\* depth with identity bests at the initial level; and no correction is set after
\* the final apply of its search
C16_StartFromIdentity ==
    /\ stage = "NONE" =>
        limeSDR.n["rxIq"] = 0 /\ limeSDR.n["txIq"] = 0 /\ limeSDR.n["txDc"] = 0
    /\ (stage = "RX_GAIN_ADJUST" \/ (acqs >= 1 /\ stage = "INIT")) =>
        /\ limeSDR.n["rxIq"] = 2 /\ limeSDR.n["txIq"] = 2 /\ limeSDR.n["txDc"] = 2
        /\ \A ch \in Chans :
            /\ limeSDR.txDc[ch] = DcZero
            /\ limeSDR.txIq[ch] = IqIdentity
            /\ limeSDR.rxIq[ch] = IqIdentity
    /\ (pc = "rx_depth" /\ depth = MAX_SEARCH_DEPTHS_FIRST) =>
        \A ch \in Chans : bestRxIqCorrs[ch] = IqIdentity /\ bestRxIqLevels[ch] = 1
    /\ (pc = "tx_depth" /\ depth = MAX_SEARCH_DEPTHS_FIRST) =>
        \A ch \in Chans :
            /\ bestTxIqCorrs[ch] = IqIdentity /\ bestTxIqLevels[ch] = 1
            /\ bestTxDcCorrs[ch] = DcZero /\ bestTxDcLevels[ch] = 1
    /\ stage \in {"TX_IQ_DC_SEARCH", "DONE"} => limeSDR.n["rxIq"] = CallsOfSearch
    /\ stage = "DONE" =>
        limeSDR.n["txIq"] = CallsOfSearch /\ limeSDR.n["txDc"] = CallsOfSearch

\* C16 witness: the first acquisition is reading, on a device whose corrections
\* were each set once per channel and are the identity ones
C16_Witness ==
    /\ pc = "readSamps"
    /\ retTo = "gain_adjust"
    /\ acqs = 1
    /\ rxStream.reading
    /\ limeSDR.rxBB[0] = 0
    /\ limeSDR.rxGain[0] = PGA_GAIN
    /\ limeSDR.rxIq[1] = IqIdentity
    /\ limeSDR.txDc[1] = DcZero
    /\ limeSDR.n["rxIq"] = 2
    /\ limeSDR.n["rxGain"] = 4

\* C17: the stream has been activated once per acquisition, each time as a burst
\* of N samples; a step activates the stream exactly when it begins an acquisition,
\* and then no read of that acquisition has been issued yet; the reads of an
\* acquisition never activate the stream, and a read is issued only inside an
\* acquisition, on the open stream
C17_OneBurstPerAcquisition ==
    /\ [](/\ rxStream.activations = acqs
          /\ acqs > 0 => rxStream.numElems = NumSamps
          /\ rxStream.reading => (acqs > 0 /\ rxStream.state # "none")
          /\ acqs = 0 => (~rxStream.reading /\ rxStream.lastReq = 0))
    /\ [][/\ (rxStream'.activations # rxStream.activations) =>
                /\ rxStream'.activations = rxStream.activations + 1
                /\ pc # "readSamps" /\ pc' = "readSamps"
                /\ ~rxStream'.reading
                /\ rxStream'.delivered = 0
                /\ rxStream.state = "open"
          /\ (pc # "readSamps" /\ pc' = "readSamps") =>
                rxStream'.activations = rxStream.activations + 1
          /\ pc = "readSamps" => rxStream'.activations = rxStream.activations
          /\ (rxStream'.reading /\ ~rxStream.reading) => pc = "readSamps"
          /\ (rxStream'.delivered # rxStream.delivered /\ rxStream'.delivered # 0)
                => pc = "readSamps"]_vars

\* C17 witness: the reads of the third acquisition are going on, one sample short
\* of N, and the stream was activated three times
C17_Witness ==
    /\ pc = "readSamps"
    /\ acqs = 3
    /\ rxStream.activations = 3
    /\ rxStream.reading
    /\ rxStream.delivered = NumSamps - 1
    /\ rxStream.numElems = NumSamps

\* the sum of 2^-k for k = 2..d, in grid units: 1/2 - 2^-d
SumOfSteps(d) == One \div 2 - TwoToMinus(d)

IqWithin(c, m) == Abs(c.g) <= m /\ Abs(c.p) <= m
DcWithin(c, m) == Abs(c.re) <= m /\ Abs(c.im) <= m

\* the bases farthest from the start value that a depth can begin with
FarBases(d) == {0 - SumOfSteps(d - 1), 0, SumOfSteps(d - 1)}

\* C18: in every depth D of either search the snapshots are within the sum of the
\* steps of the depths before D and every candidate (DC components, log2 gain,
\* phase in units of pi/2) is within the sum of the steps up to D, which is at most
\* 1/2 - 2^-10; every candidate is the plain sum of snapshot and test point, so the
\* clamp changes nothing and the phase does not wrap; and this carries on from
\* depth to depth: a candidate composed from any base within the sum of the steps
\* before D is the plain sum and is within the sum of the steps up to D
C18_CandidatesStayClose ==
    /\ SumOfSteps(MAX_SEARCH_DEPTHS_LAST) = One \div 2 - 1
    /\ pc \in {"rx_apply", "rx_compare"} => \A ch \in Chans :
        /\ IqWithin(bestRxIqCorrsIter[ch], SumOfSteps(depth - 1))
        /\ IqWithin(bestRxIqCorrs[ch], SumOfSteps(depth))
        /\ IqWithin(RxCandidate(ch), SumOfSteps(depth))
        /\ RxCandidate(ch).p = bestRxIqCorrsIter[ch].p + points[idx].iq.p
        /\ pc = "rx_compare" => newIqCorrs[ch] = RxCandidate(ch)
    /\ pc \in {"tx_apply", "tx_compare"} => \A ch \in Chans :
        /\ IqWithin(bestTxIqCorrsIter[ch], SumOfSteps(depth - 1))
        /\ DcWithin(bestTxDcCorrsIter[ch], SumOfSteps(depth - 1))
        /\ IqWithin(bestTxIqCorrs[ch], SumOfSteps(depth))
        /\ DcWithin(bestTxDcCorrs[ch], SumOfSteps(depth))
        /\ IqWithin(TxIqCandidate(ch), SumOfSteps(depth))
        /\ DcWithin(TxDcCandidate(ch), SumOfSteps(depth))
        /\ TxIqCandidate(ch).p = bestTxIqCorrsIter[ch].p + points[idx].iq.p
        /\ TxDcCandidate(ch).re = bestTxDcCorrsIter[ch].re + points[idx].dc.re
        /\ TxDcCandidate(ch).im = bestTxDcCorrsIter[ch].im + points[idx].dc.im
        /\ pc = "tx_compare" =>
            (newIqCorrs[ch] = TxIqCandidate(ch) /\ newDcCorrs[ch] = TxDcCandidate(ch))
    /\ pc \in {"rx_apply", "tx_apply"} =>
        \A a, b \in FarBases(depth) :
            /\ ComposeDc(points[idx].dc, [re |-> a, im |-> b]) =
                    [re |-> a + points[idx].dc.re, im |-> b + points[idx].dc.im]
            /\ ComposeIq(points[idx].iq, [g |-> a, p |-> b]) =
                    [g |-> a + points[idx].iq.g, p |-> b + points[idx].iq.p]
            /\ DcWithin(ComposeDc(points[idx].dc, [re |-> a, im |-> b]), SumOfSteps(depth))
            /\ IqWithin(ComposeIq(points[idx].iq, [g |-> a, p |-> b]), SumOfSteps(depth))

\* C18 witness: in the last depth of the Tx search the DC candidate of channel 0
\* has a real part of 1/2 - 2^-10, the largest there is, and the IQ candidate of
\* channel 1 a phase of (pi/2)*(1/2 - 2^-10)
C18_Witness ==
    /\ pc = "tx_compare"
    /\ depth = MAX_SEARCH_DEPTHS_LAST
    /\ newDcCorrs[0].re = One \div 2 - 1
    /\ limeSDR.txDc[0] = newDcCorrs[0]
    /\ newIqCorrs[1].p = One \div 2 - 1

\* C19: no step of RX_IQ_SEARCH calls a Tx IQ or Tx DC setter, and the device's Tx
\* corrections are the identity ones throughout that stage; no step after the
\* final apply of the Rx best calls an Rx IQ or Rx gain setter or changes a
\* recorded Rx best, and from then on the device's Rx IQ correction of each
\* channel is the recorded Rx best
C19_StagesKeepApart ==
    /\ [](/\ stage = "RX_IQ_SEARCH" => \A ch \in Chans :
                limeSDR.txIq[ch] = IqIdentity /\ limeSDR.txDc[ch] = DcZero
          /\ (stage \in {"TX_IQ_DC_SEARCH", "DONE"} \/ pc = "tx_start"
                \/ (pc = "readSamps" /\ retTo = "tx_start")) =>
                \A ch \in Chans : limeSDR.rxIq[ch] = bestRxIqCorrs[ch])
    /\ [][/\ (stage = "RX_IQ_SEARCH" /\ stage' = "RX_IQ_SEARCH") =>
                /\ limeSDR'.n["txIq"] = limeSDR.n["txIq"]
                /\ limeSDR'.n["txDc"] = limeSDR.n["txDc"]
          /\ (stage' \in {"TX_IQ_DC_SEARCH", "DONE"} \/ pc = "tx_start"
                \/ (pc = "readSamps" /\ retTo = "tx_start")) =>
                /\ limeSDR'.n["rxIq"] = limeSDR.n["rxIq"]
                /\ limeSDR'.n["rxGain"] = limeSDR.n["rxGain"]
                /\ limeSDR'.rxIq = limeSDR.rxIq
                /\ limeSDR'.rxGain = limeSDR.rxGain
                /\ UNCHANGED <<bestRxIqCorrs, bestRxIqLevels>>]_vars

\* C19 witness: a complete run in which both searches recorded a best for channel
\* 0: the Rx correction on the device is still the Rx best, next to the Tx bests
C19_Witness ==
    /\ pc = "exit"
    /\ stage = "DONE"
    /\ bestRxIqCorrs[0] # IqIdentity
    /\ bestTxIqCorrs[0] # IqIdentity
    /\ bestTxDcCorrs[0] # DcZero
    /\ limeSDR.rxIq[0] = bestRxIqCorrs[0]
    /\ limeSDR.txIq[0] = bestTxIqCorrs[0]
    /\ limeSDR.txDc[0] = bestTxDcCorrs[0]

\* depths a search goes through
NumDepths == env.lastDepth - MAX_SEARCH_DEPTHS_FIRST + 1

\* C20: a run over the depths 2..10 in which the reads do not return zero samples
\* for ever ends in DONE
\* unless a read reported a negative status or a setter raised; each search goes
\* through the depths from 2 up, one by one, leaves the loop after the last depth,
\* and goes through the 9 test points of each depth one by one; a finished run has
\* made 5 acquisitions outside the searches and 9 per depth inside each, which is
\* 167 for the depths 2..10; a first read that returns no samples leaves the
\* acquisition where it was, with all N samples still to be read
C20_TerminatesAfter167 ==
    /\ <>(stage = "DONE" \/ pc = "failed")
    /\ [](/\ pc \in {"rx_apply", "rx_compare", "tx_apply", "tx_compare"} =>
                (depth \in MAX_SEARCH_DEPTHS_FIRST..env.lastDepth /\ idx \in 1..9)
          /\ pc \in {"rx_final", "tx_final"} => depth = env.lastDepth + 1
          /\ stage = "DONE" =>
                /\ acqs = 5 + 2 * 9 * NumDepths
                /\ limeSDR.n["rxIq"] = 2 * (2 + 9 * NumDepths)
                /\ env.lastDepth = 10 => (acqs = 167 /\ limeSDR.n["txIq"] = 2 * (2 + 81)))
    /\ [][/\ depth' # depth =>
                \/ pc \in {"rx_begin", "tx_begin"} /\ depth' = 2
                \/ pc \in {"rx_compare", "tx_compare"} /\ idx = 9 /\ depth' = depth + 1
          /\ idx' # idx =>
                \/ pc \in {"rx_depth", "tx_depth"} /\ idx' = 1
                \/ pc \in {"rx_compare", "tx_compare"} /\ idx' = idx + 1
          /\ (pc = "readSamps" /\ ~rxStream'.error
                /\ rxStream'.delivered = rxStream.delivered) =>
                /\ pc' = "readSamps"
                /\ b0' = b0 /\ b1' = b1
                /\ acqs' = acqs
                /\ rxStream'.lastReq = b0.size]_vars

\* C20 witness: a run on the simulated device, with the depths 2..10, is in DONE
\* after 167 acquisitions
C20_Witness ==
    /\ stage = "DONE"
    /\ pc = "exit"
    /\ env.lastDepth = 10
    /\ depth = 11
    /\ idx = 9
    /\ acqs = 167

====
